---------------------------- MODULE Spec2Model ----------------------------
(***************************************************************************)
(* LazyLabel (label.py): a Label for a RecycleView that measures the whole *)
(* text but rasterizes only a bounded texture window around the viewport.  *)
(*                                                                         *)
(* lbl   the LazyLabel instance (its properties and private attributes)    *)
(* rv    the host RecycleView as far as the label touches it               *)
(* pass  history of the last operation (what the last layout pass did)     *)
(* attach_pending  history: an attach not yet followed by a completed pass *)
(* loc   inputs and result of the locate-range computation studied alone   *)
(*                                                                         *)
(* Lengths are integers.  The tolerances 0.01 and 0.1 of the code are kept *)
(* by scaling both sides of the comparison (by 100 and by 10).  Line       *)
(* heights, paddings and host heights are even, so the centring division   *)
(* (self.height - sz[1]) / 2. is exact.                                    *)
(***************************************************************************)
EXTENDS Integers, Sequences, FiniteSets, TLC

VARIABLES lbl, rv, pass, attach_pending, loc

vars == <<lbl, rv, pass, attach_pending, loc>>

---------------------------------------------------------------------------
(* Python's None and an optional value. *)
None == <<>>
Some(x) == <<x>>
Val(o) == o[1]

Min(a, b) == IF a <= b THEN a ELSE b
Max(a, b) == IF a >= b THEN a ELSE b
CeilDiv(a, b) == (a + b - 1) \div b

---------------------------------------------------------------------------
(* Bounds of the model. *)
MaxScroll == 1
NumRecords == 3
MaxLines == 3
MaxLineH == 2
MaxQuery == 7

(* The data records the host can attach.  glyphs is the length of one     *)
(* paragraph in glyph cells, paras the number of paragraphs, blank whether *)
(* text.strip() is empty, strip whether the strip policy is active         *)
(* (strip, or halign 'justify'), lh the line height of the font, pad the   *)
(* padding_y option.                                                       *)
AllRecords ==
  << [paras |-> 0, glyphs |-> 0, blank |-> TRUE,  strip |-> FALSE, lh |-> 20, pad |-> 0, valign |-> "bottom"],
     [paras |-> 2, glyphs |-> 8, blank |-> FALSE, strip |-> FALSE, lh |-> 20, pad |-> 2, valign |-> "middle"],
     [paras |-> 1, glyphs |-> 2, blank |-> TRUE,  strip |-> TRUE,  lh |-> 20, pad |-> 0, valign |-> "bottom"],
     [paras |-> 1, glyphs |-> 8, blank |-> FALSE, strip |-> TRUE,  lh |-> 200000, pad |-> 0, valign |-> "top"],
     [paras |-> 1, glyphs |-> 1, blank |-> TRUE,  strip |-> FALSE, lh |-> 20, pad |-> 0, valign |-> "bottom"],
     [paras |-> 250, glyphs |-> 8, blank |-> FALSE, strip |-> FALSE, lh |-> 20, pad |-> 0, valign |-> "bottom"] >>

\* the text of a Label after construction is ''
EmptyText == CHOOSE r \in 1..Len(AllRecords) : AllRecords[r].glyphs = 0
ScenarioText == Len(AllRecords)
\* the records the host attaches
Records == 2..Min(NumRecords + 1, Len(AllRecords) - 1)

Widths == {4, 8}
HostHeights == {44, 100}
WidgetYs == {0, -10}
ViewHeights == {20, 30}
ViewYs == {10 * k : k \in 0..MaxScroll}
Keys == {"", "height", "row_h"}

---------------------------------------------------------------------------
(* The text-layout engine: label.render() and label._cached_lines. *)

\* number of layout lines of record r wrapped at width wrap (0: text_size[0] is None)
LineCount(r, wrap) ==
  AllRecords[r].paras * (IF wrap = 0 THEN 1 ELSE CeilDiv(AllRecords[r].glyphs, wrap))

\* label._cached_lines after render(): the heights of the layout lines
RenderLines(r, wrap) == [i \in 1..LineCount(r, wrap) |-> AllRecords[r].lh]

\* sz = label.render(): the size needed to hold all the text
RenderSize(r, wrap) ==
  << IF wrap = 0 THEN AllRecords[r].glyphs ELSE wrap,
     LineCount(r, wrap) * AllRecords[r].lh + 2 * AllRecords[r].pad >>

\* not label.text or (halign[-1] == 'y' or strip) and not label.text.strip()
IsEmptyText(r) ==
  AllRecords[r].glyphs = 0 \/ (AllRecords[r].strip /\ AllRecords[r].blank)

\* label._default_line_options(lines): None when no line holds a word
DefaultLineOptions(r) ==
  IF AllRecords[r].blank THEN None
  ELSE Some([valign |-> AllRecords[r].valign, padding_y |-> AllRecords[r].pad])

\* where in the texture the first line starts
TextureY(valign, szh, ih, ypad) ==
  IF valign = "bottom" THEN szh - ih + ypad
  ELSE IF valign = "middle" THEN (szh - ih) \div 2 + ypad
  ELSE ypad

---------------------------------------------------------------------------
(* accumulate_lines and bisect_left. *)

\* the values accumulate_lines yields for lines[lo..hi], the first being y
\* (the loop is split in halves, which keeps the evaluation depth logarithmic)
RECURSIVE AccumulateRange(_, _, _, _)
AccumulateRange(lines, lo, hi, y) ==
  IF lo > hi THEN <<>>
  ELSE IF lo = hi THEN <<y>>
  ELSE LET mid == (lo + hi) \div 2
           left == AccumulateRange(lines, lo, mid, y)
       IN left \o AccumulateRange(lines, mid + 1, hi, left[Len(left)] + lines[mid])

\* variant: the loop without the final yield
AccumulateNoFinal(lines, y) == AccumulateRange(lines, 1, Len(lines), y)

\* list(accumulate_lines(lines, y)): one value per line, then the final y
accumulate_lines(lines, y) ==
  LET body == AccumulateRange(lines, 1, Len(lines), y)
  IN IF lines = <<>> THEN <<y>>
     ELSE Append(body, body[Len(body)] + lines[Len(lines)])

\* bisect.bisect_left(a, x, lo, hi) on a 0-indexed list
RECURSIVE bisect_left(_, _, _, _)
bisect_left(a, x, lo, hi) ==
  IF lo < hi
  THEN LET mid == (lo + hi) \div 2
       IN IF a[mid + 1] < x THEN bisect_left(a, x, mid + 1, hi)
          ELSE bisect_left(a, x, lo, mid)
  ELSE lo

\* variant: the two searches without the extra line on each side
LocateNoMargin(pos, ylo, yhi) ==
  LET s == bisect_left(pos, ylo, 0, Len(pos))
      e == bisect_left(pos, yhi, s, Len(pos))
  IN <<s, e>>

\* the slice [s, e) of lines to render for the window [ylo, yhi]:
\* two leftmost searches, then one more line on each side
LocateRange(pos, ylo, yhi) ==
  LET s == bisect_left(pos, ylo, 0, Len(pos))
      e == bisect_left(pos, yhi, s, Len(pos))
  IN <<Max(0, s - 1), e + 1>>

---------------------------------------------------------------------------
(* State after construction: a Label with default properties, no view. *)

NoPass ==
  [op |-> "init", kind |-> "none", w |-> 0, h |-> 0, py |-> 0, y1 |-> 0, vh |-> 0,
   remeasured |-> FALSE, measured |-> 0, wrote |-> None, rebuilt |-> FALSE,
   lrv |-> None, ty1 |-> 0, ty2 |-> 0, s |-> 0, e |-> 0, first |-> "no"]

NoLoc ==
  [lines |-> <<>>, y |-> 0, pos |-> <<>>, ylo |-> 0, yhi |-> 0, done |-> FALSE,
   s |-> 0, e |-> 0]

InitLabel(sth, ctw) ==
  [text |-> EmptyText, text_size0 |-> 0, width |-> 100, height |-> 100, y |-> 0,
   texture_size |-> <<0, 0>>, cached_lines |-> <<>>, default_options |-> None,
   texture |-> None, core_texture |-> None,
   lines_pos |-> None, last_rendered_view |-> None,
   texture_y |-> 0, last_height |-> 0, texture_pos_y |-> 0,
   true_texture_size |-> <<0, 0>>, is_triggered |-> TRUE,
   size_to_texture_height |-> sth, constrain_text_width |-> ctw, rv |-> FALSE]

InitHost(key) ==
  [key_size |-> key, data |-> [k \in Keys |-> None], asked |-> {}, frame |-> "idle"]

Init ==
  /\ \E sth \in BOOLEAN, ctw \in BOOLEAN :
        /\ lbl = InitLabel(sth, ctw)
        /\ rv = InitHost(IF ctw THEN "" ELSE "row_h")
  /\ pass = NoPass
  /\ attach_pending = "no"
  /\ loc = NoLoc

---------------------------------------------------------------------------
(* texture_update: measure, render nothing. *)

\* variant: the texture object survives the measure
DiscardKeepTexture(L) ==
  [L EXCEPT !.lines_pos = None, !.last_height = 0,
            !.true_texture_size = <<0, 0>>]

\* the window state texture_update discards before measuring
DiscardWindow(L) ==
  [L EXCEPT !.texture = None, !.lines_pos = None, !.last_height = 0,
            !.true_texture_size = <<0, 0>>]

texture_update(L) ==
  LET L0 == DiscardWindow(L)
      sz == RenderSize(L.text, L.text_size0)
      lines == RenderLines(L.text, L.text_size0)
      options == DefaultLineOptions(L.text)
  IN IF IsEmptyText(L.text)
     THEN [L0 EXCEPT !.texture_size = <<0, 0>>]
     ELSE IF sz[1] <= 1 \/ sz[2] <= 1
     THEN [L0 EXCEPT !.texture_size = <<0, 0>>, !.cached_lines = lines]
     ELSE IF options = None
     THEN [L0 EXCEPT !.texture_size = <<0, 0>>, !.cached_lines = lines,
                     !.default_options = None]
     ELSE [L0 EXCEPT !.texture_size = sz, !.cached_lines = lines,
                     !.default_options = options,
                     !.texture_y = TextureY(Val(options).valign, sz[2], sz[2],
                                            Val(options).padding_y)]

\* the clock trigger _trigger_texture fires between frames
TriggerFire ==
  /\ rv.frame = "idle"
  /\ lbl.is_triggered
  /\ lbl' = texture_update([lbl EXCEPT !.is_triggered = FALSE])
  /\ pass' = [NoPass EXCEPT !.op = "trigger"]
  /\ UNCHANGED <<rv, attach_pending, loc>>

---------------------------------------------------------------------------
(* _reload_observer: the graphics context was lost and the texture reloaded *)

EmptyView == <<-1, 0>>

\* variant: the covered range is left as it is
ReloadKeepView(lrv) == lrv

\* self._last_rendered_view = (-1, 0)  # force a redraw
ReloadView(lrv) == EmptyView

reload_observer ==
  /\ rv.frame = "idle"
  /\ lbl.core_texture # None
  /\ lbl' = [lbl EXCEPT !.last_rendered_view = ReloadView(lbl.last_rendered_view)]
  /\ rv' = [rv EXCEPT !.asked = rv.asked \cup {"viewport"}]
  /\ pass' = [NoPass EXCEPT !.op = "reload"]
  /\ UNCHANGED <<attach_pending, loc>>

---------------------------------------------------------------------------
(* refresh_view_attrs: the host binds the slot to a data record. *)

\* variant: the Line Offset Table survives the attach
AttachKeepLinesPos(lp) == lp

\* self._lines_pos = None
AttachLinesPos(lp) == None

\* variant: the size key is left as the host has it
KeySizeKept(sth, key) == key

\* if self.size_to_texture_height: if not rv.key_size: rv.key_size = 'height'
KeySizeAfterAttach(sth, key) == IF sth /\ key = "" THEN "height" ELSE key

refresh_view_attrs(r) ==
  /\ rv.frame # "attached"
  /\ lbl' = [lbl EXCEPT !.text = r,
                        !.is_triggered = lbl.is_triggered \/ r # lbl.text,
                        !.lines_pos = AttachLinesPos(lbl.lines_pos),
                        !.rv = TRUE]
  /\ rv' = [rv EXCEPT
              !.frame = "attached",
              !.key_size = KeySizeAfterAttach(lbl.size_to_texture_height, rv.key_size),
              !.data = IF lbl.rv /\ r = lbl.text THEN rv.data
                       ELSE [k \in Keys |-> None]]
  /\ pass' = [NoPass EXCEPT !.op = "attach"]
  /\ attach_pending' = IF lbl.texture = None THEN "bare" ELSE "rendered"
  /\ UNCHANGED loc

---------------------------------------------------------------------------
(* refresh_view_layout: one layout pass of the host. *)

\* super().refresh_view_layout: the widget takes the assigned size and pos
SetGeometry(L, w, h, py) == [L EXCEPT !.width = w, !.height = h, !.y = py]

\* variant: the wrap width is set without triggering a measure
ConstrainWidthNoTrigger(L) ==
  IF L.constrain_text_width /\ L.text_size0 # L.width
  THEN [L EXCEPT !.text_size0 = L.width]
  ELSE L

\* constrain_text_width: the wrap width follows the widget's width; a
\* change of text_size triggers _trigger_texture
ConstrainWidth(L) ==
  IF L.constrain_text_width /\ L.text_size0 # L.width
  THEN [L EXCEPT !.text_size0 = L.width, !.is_triggered = TRUE]
  ELSE L

\* the pass re-measures: the trigger is pending, or the height is off
NeedsMeasure(L, height) ==
  L.is_triggered \/ (height # L.texture_size[2] /\ L.size_to_texture_height)

\* variant: the height is saved whether or not it is driven by content
NeedsCorrectionAlways(sth, height, th) == height # th

\* variant: only a larger measured height is saved
NeedsCorrectionGrowOnly(sth, height, th) == sth /\ height < th

\* the height changed and must be saved to data
NeedsCorrection(sth, height, th) == sth /\ height # th

\* variant: the width is saved instead of the height
CorrectedSizeWidth(ts) == ts[1]

\* the value saved to rv.data[index][rv.key_size]
CorrectedSize(ts) == ts[2]

\* variant: the comparison never succeeds
EmptyMeasurementNever(ts) == FALSE

\* self.texture_size == (0, 0), compared by value
EmptyMeasurement(ts) == ts = <<0, 0>>

\* variant: a change of the widget height is not looked at
MustRebuildNoHeight(lp, last_height, height, tth, view_height) ==
  \/ lp = None
  \/ 100 * (tth - 3 * view_height) > 1

\* initial setup, or the widget height changed, or the view became smaller
MustRebuild(lp, last_height, height, tth, view_height) ==
  \/ lp = None
  \/ last_height # height
  \/ 100 * (tth - 3 * view_height) > 1

\* variant: the window is as high as the text
TexHeightUncapped(szh, view_height) == szh

\* tex_height = min(sz[1], 3 * view_height)
TexHeight(szh, view_height) == Min(szh, 3 * view_height)

\* Texture.create: an object distinct from the one held so far
NewTexture(old) == Some("Texture")

\* the window is created anew: texture, Line Offset Table, empty covered range
RebuildWindow(L, view_height) ==
  LET sz == L.texture_size
      ypos == L.texture_y + (L.height - sz[2]) \div 2
      acc == accumulate_lines(L.cached_lines, ypos)
      tex == NewTexture(L.core_texture)
  IN [L EXCEPT !.true_texture_size = <<sz[1], TexHeight(sz[2], view_height)>>,
               !.lines_pos = Some(SubSeq(acc, 1, Len(acc) - 1)),
               !.texture = tex, !.core_texture = tex,
               !.last_rendered_view = EmptyView,
               !.last_height = L.height]

\* bottom and top of the view, relative to the top of the widget
ViewBottom(L, y1) == L.height - (y1 - L.y)
ViewTop(L, y2) == L.height - (y2 - L.y)

\* variant: the test without the 0.1 tolerance
CoveredNoTolerance(lrv, ty1, ty2) ==
  /\ lrv[1] >= ty1
  /\ ty1 >= ty2
  /\ ty2 >= lrv[2]

\* variant: the test asks for one view height of margin on each side
CoveredWithMargin(lrv, ty1, ty2) ==
  /\ 10 * lrv[1] + 1 >= 10 * (ty1 + (ty1 - ty2))
  /\ ty1 >= ty2
  /\ 10 * (ty2 - (ty1 - ty2)) + 1 >= 10 * lrv[2]

\* the view is within the last rendered view:
\* ylow - .1 >= ty1 >= ty2 >= yhigh + .1
Covered(lrv, ty1, ty2) ==
  /\ 10 * lrv[1] - 1 >= 10 * ty1
  /\ ty1 >= ty2
  /\ 10 * ty2 >= 10 * lrv[2] + 1

\* variant: the recorded range is the view itself
RenderedViewNoMargin(ty1, ty2, view_height) == <<ty1, ty2>>

\* the covered range recorded by a render: the view and one view height
\* on each side
RenderedView(ty1, ty2, view_height) == <<ty1 + view_height, ty2 - view_height>>

\* what a render records: the texture position and the covered range
\* (the rendered slice lines[s:e] is kept in the history of the pass)
Rasterize(L, y1, ty1, ty2, view_height) ==
  [L EXCEPT !.texture_pos_y = y1 - view_height,
            !.last_rendered_view = RenderedView(ty1, ty2, view_height)]

\* (each intermediate value is bound once by \E over a singleton set)
refresh_view_layout(w, h, py, y1, view_height) ==
  \E L1 \in {ConstrainWidth(SetGeometry(lbl, w, h, py))} :
  \E re \in {NeedsMeasure(L1, h)} :
  \E L2 \in {IF re THEN texture_update([L1 EXCEPT !.is_triggered = FALSE]) ELSE L1} :
  \E R0 \in {[rv EXCEPT !.asked = {}, !.frame = "idle"]} :
  \E P0 \in {[NoPass EXCEPT !.op = "layout", !.w = w, !.h = h, !.py = py,
                            !.remeasured = re, !.measured = L2.texture_size[2]]} :
     IF re /\ NeedsCorrection(L2.size_to_texture_height, h, L2.texture_size[2])
     THEN \* raise LayoutChangeException()
          /\ lbl' = L2
          /\ rv' = [R0 EXCEPT !.data[rv.key_size] = Some(CorrectedSize(L2.texture_size)),
                              !.asked = {"data_size"}, !.frame = "retry"]
          /\ pass' = [P0 EXCEPT !.kind = "aborted",
                                !.wrote = Some(CorrectedSize(L2.texture_size))]
          /\ UNCHANGED attach_pending
     ELSE IF EmptyMeasurement(L2.texture_size)
     THEN /\ lbl' = L2
          /\ rv' = R0
          /\ pass' = [P0 EXCEPT !.kind = "empty"]
          /\ UNCHANGED attach_pending
     ELSE \E rebuild \in {MustRebuild(L2.lines_pos, L2.last_height, h,
                                      L2.true_texture_size[2], view_height)} :
          \E L3 \in {IF rebuild THEN RebuildWindow(L2, view_height) ELSE L2} :
          \E ty1 \in {ViewBottom(L3, y1)} :
          \E ty2 \in {ViewTop(L3, y1 + view_height)} :
          \E skip \in {Covered(L3.last_rendered_view, ty1, ty2)} :
          \E L4 \in {IF skip THEN L3 ELSE Rasterize(L3, y1, ty1, ty2, view_height)} :
          \E se \in {LocateRange(Val(L3.lines_pos), ty2 - view_height, ty1 + view_height)} :
             /\ lbl' = L4
             /\ rv' = R0
             /\ pass' = [P0 EXCEPT !.kind = IF skip THEN "skipped" ELSE "rendered",
                                   !.y1 = y1, !.vh = view_height,
                                   !.rebuilt = rebuild,
                                   !.lrv = L3.last_rendered_view,
                                   !.ty1 = ty1, !.ty2 = ty2,
                                   !.s = IF skip THEN 0 ELSE se[1],
                                   !.e = IF skip THEN 0 ELSE se[2],
                                   !.first = attach_pending]
             /\ attach_pending' = "no"

\* the host assigns a default height or the height stored in the data record
AssignedHeights ==
  HostHeights \cup (IF rv.data[rv.key_size] = None THEN {}
                    ELSE {Val(rv.data[rv.key_size])})

Layout ==
  /\ lbl.rv
  /\ \E w \in Widths, h \in AssignedHeights, py \in WidgetYs,
        y1 \in ViewYs, view_height \in ViewHeights :
        refresh_view_layout(w, h, py, y1, view_height)
  /\ UNCHANGED loc

Attach ==
  /\ \E r \in Records : refresh_view_attrs(r)

Next == Attach \/ Layout \/ TriggerFire \/ reload_observer

Spec == Init /\ [][Next]_vars

---------------------------------------------------------------------------
(* The locate-range computation alone: every small sorted offsets table    *)
(* (built by accumulate_lines) and every query window.                     *)

LineHeightSeqs == UNION {[1..n -> 0..MaxLineH] : n \in 1..MaxLines}

InitLocate ==
  /\ lbl = InitLabel(TRUE, TRUE)
  /\ rv = InitHost("")
  /\ pass = NoPass
  /\ attach_pending = "no"
  /\ \E hs \in LineHeightSeqs, y0 \in {0, 1}, ylo \in -1..MaxQuery, yhi \in -1..MaxQuery :
        /\ ylo <= yhi
        /\ loc = [NoLoc EXCEPT !.pos = accumulate_lines(hs, y0), !.ylo = ylo, !.yhi = yhi]

\* pos = self._lines_pos after the pop() of the sentinel; s, e as rendered
Locate ==
  /\ ~loc.done
  /\ \E pos \in {SubSeq(loc.pos, 1, Len(loc.pos) - 1)} :
     \E se \in {LocateRange(pos, loc.ylo, loc.yhi)} :
        loc' = [loc EXCEPT !.done = TRUE, !.s = se[1], !.e = se[2]]
  /\ UNCHANGED <<lbl, rv, pass, attach_pending>>

NextLocate == Locate

SpecLocate == InitLocate /\ [][NextLocate]_vars

---------------------------------------------------------------------------
(* accumulate_lines alone: every small sequence of line heights and every  *)
(* small starting y.                                                       *)

StartYs == {-1, 0, 1}

InitAccumulate ==
  /\ lbl = InitLabel(TRUE, TRUE)
  /\ rv = InitHost("")
  /\ pass = NoPass
  /\ attach_pending = "no"
  /\ \E hs \in LineHeightSeqs, y0 \in StartYs :
        loc = [NoLoc EXCEPT !.lines = hs, !.y = y0]

\* list(accumulate_lines(lines, y))
Accumulate ==
  /\ loc.pos = <<>>
  /\ loc' = [loc EXCEPT !.pos = accumulate_lines(loc.lines, loc.y)]
  /\ UNCHANGED <<lbl, rv, pass, attach_pending>>

NextAccumulate == Accumulate

SpecAccumulate == InitAccumulate /\ [][NextAccumulate]_vars

---------------------------------------------------------------------------
(* The end-to-end scenario: 500 lines of 20 units, viewport height 300.    *)

Scenario == [width |-> 4, height |-> 10000, view_height |-> 300, y |-> 4000]
\* 7000 and -5000 put the viewport entirely above and entirely below the widget
ScenarioMoves == {0, 10, -10, 400, -400, 20, 410, 7000, -5000}

InitScenario ==
  /\ lbl = InitLabel(TRUE, TRUE)
  /\ rv = InitHost("")
  /\ pass = NoPass
  /\ attach_pending = "no"
  /\ loc = NoLoc

AttachScenario == refresh_view_attrs(ScenarioText)

LayoutScenario ==
  /\ lbl.rv
  /\ \E h \in {100, Scenario.height}, d \in ScenarioMoves :
        refresh_view_layout(Scenario.width, h, 0, Scenario.y + d, Scenario.view_height)
  /\ UNCHANGED loc

NextScenario == AttachScenario \/ LayoutScenario \/ reload_observer

SpecScenario == InitScenario /\ [][NextScenario]_vars

---------------------------------------------------------------------------
(* Properties. *)

\* the last operation was a layout pass that reached window management
Completed(p) == p.op = "layout" /\ p.kind \in {"skipped", "rendered"}

\* C1: every layout pass that is neither aborted nor empty ends with the
\* height of the texture window at most 3 x the viewport height of that
\* pass plus 0.01, whatever the logical height of the text.
C1_BoundedTextureWindow ==
  Completed(pass) => 100 * lbl.true_texture_size[2] <= 100 * 3 * pass.vh + 1

\* a completed pass on a text at least 10,000 viewports high
C1_Witness ==
  /\ Completed(pass)
  /\ lbl.texture_size[2] >= 10000 * pass.vh
  /\ lbl.true_texture_size[2] = 3 * pass.vh

\* C2: with size_to_texture_height, a layout pass whose measured height
\* (texture_size[1] after any re-measure) differs from the assigned height
\* aborts: it has written the measured height to rv.data[index][key_size],
\* asked for a refresh from data, and leaves no texture and no Line Offset
\* Table.
C2_ReflowAbort ==
  (pass.op = "layout" /\ lbl.size_to_texture_height /\ pass.measured # pass.h)
    => /\ pass.kind = "aborted"
       /\ rv.data[rv.key_size] = Some(pass.measured)
       /\ "data_size" \in rv.asked
       /\ lbl.texture = None
       /\ lbl.lines_pos = None
       /\ ~pass.rebuilt

\* an abort that discards an earlier window and writes a non-zero height
C2_Witness ==
  /\ pass.kind = "aborted"
  /\ Val(pass.wrote) > 0
  /\ lbl.core_texture # None

\* a layout pass that follows an aborted one, with the height that pass
\* wrote and the same width (a layout step leaves the data alone)
RetryStep ==
  /\ pass.kind = "aborted"
  /\ pass'.op = "layout"
  /\ pass'.h = Val(pass.wrote)
  /\ pass'.w = pass.w

\* C3 as stated: the retry does not abort and proceeds to window management.
C3_AbortConvergenceAsStated ==
  [][RetryStep => pass'.kind \in {"skipped", "rendered"}]_vars

\* C3: the retry with the written height H never aborts; it proceeds to
\* window management when H is not 0 and returns as empty when H is 0.
C3_AbortConvergence ==
  [][RetryStep => IF Val(pass.wrote) = 0 THEN pass'.kind = "empty"
                  ELSE pass'.kind \in {"skipped", "rendered"}]_vars

\* a pass completed at the stored height, which only an abort can have written
C3_Witness ==
  /\ Completed(pass)
  /\ ~pass.remeasured
  /\ rv.data[rv.key_size] = Some(pass.h)
  /\ pass.h \notin HostHeights

\* two consecutive layout passes with the same assigned size and position
SameAssigned ==
  /\ pass.op = "layout"
  /\ pass'.op = "layout"
  /\ <<pass'.w, pass'.h, pass'.py>> = <<pass.w, pass.h, pass.py>>

\* C4: of two consecutive layout passes with the same viewport, position
\* and size, the second performs no rasterization and leaves the covered
\* range, the texture and the texture position unchanged.  (After a pass
\* that did not reach window management the viewport does not matter.)
C4_CoverageIdempotence ==
  [][SameAssigned =>
       /\ Completed(pass) => Completed(pass')
       /\ (Completed(pass) => <<pass'.y1, pass'.vh>> = <<pass.y1, pass.vh>>)
            => /\ pass'.kind # "rendered"
               /\ ~pass'.rebuilt
               /\ lbl'.texture = lbl.texture
               /\ lbl'.last_rendered_view = lbl.last_rendered_view
               /\ lbl'.texture_pos_y = lbl.texture_pos_y]_vars

\* a pass skipped on exactly the viewport of the last render
C4_Witness ==
  /\ pass.op = "layout" /\ pass.kind = "skipped"
  /\ ~pass.remeasured
  /\ pass.lrv = <<pass.ty1 + pass.vh, pass.ty2 - pass.vh>>
  /\ lbl.texture_pos_y = pass.y1 - pass.vh

\* C5: the first layout pass after an attach that is neither aborted nor
\* empty creates the texture and the Line Offset Table anew, starts from an
\* empty covered range and rasterizes, whatever the viewport.
C5_ReattachInvalidation ==
  (Completed(pass) /\ pass.first # "no")
    => /\ pass.rebuilt
       /\ pass.lrv = EmptyView
       /\ pass.kind = "rendered"
       /\ lbl.texture # None
       /\ lbl.lines_pos # None

\* the slot held a texture when it was re-attached, and nothing was re-measured
C5_Witness ==
  /\ Completed(pass)
  /\ pass.first = "rendered"
  /\ ~pass.remeasured

\* line i (0-based) of the table loc.pos has a non-empty extent
\* [offset[i], offset[i+1]) that meets the closed window [ylo, yhi]
LineIntersects(i) ==
  /\ loc.pos[i + 1] < loc.pos[i + 2]
  /\ loc.pos[i + 1] <= loc.yhi
  /\ loc.pos[i + 2] > loc.ylo

\* line i meets the window in more than the single point yhi
LineOverlaps(i) ==
  /\ loc.pos[i + 1] < loc.pos[i + 2]
  /\ loc.pos[i + 1] < loc.yhi
  /\ loc.pos[i + 2] > loc.ylo

\* no two lines of the table start at the same offset
StrictlyIncreasing ==
  \A i \in 1..(Len(loc.pos) - 1) : loc.pos[i] < loc.pos[i + 1]

\* C6 as stated: the rendered slice [s, e) holds every line whose extent
\* meets the query window, for every sorted offsets table and every window.
C6_LocateNeverUnderCoversAsStated ==
  loc.done => \A i \in 0..(Len(loc.pos) - 2) :
                 LineIntersects(i) => loc.s <= i /\ i < loc.e

\* C6: the rendered slice [s, e) holds every line whose extent overlaps
\* the query window in more than the point y_high, for every sorted offsets
\* table; when the table is strictly increasing it also holds the line that
\* starts exactly at y_high.
C6_LocateNeverUnderCovers ==
  loc.done => \A i \in 0..(Len(loc.pos) - 2) :
                 (LineOverlaps(i) \/ (StrictlyIncreasing /\ LineIntersects(i)))
                    => loc.s <= i /\ i < loc.e

\* the first line of the slice starts above the window and is visible, the
\* last line of the slice starts exactly at y_high, and the table has a tie
C6_Witness ==
  /\ loc.done
  /\ ~StrictlyIncreasing
  /\ loc.s < Len(loc.pos) - 1
  /\ LineOverlaps(loc.s)
  /\ loc.pos[loc.s + 1] < loc.ylo
  /\ loc.e - 1 < Len(loc.pos) - 1
  /\ LineIntersects(loc.e - 1)
  /\ ~LineOverlaps(loc.e - 1)

\* the covered range read by the pass holds the viewport and one viewport
\* height on each side, within the tolerance
ContainsExtended ==
  /\ 10 * pass.lrv[1] + 1 >= 10 * (pass.ty1 + pass.vh)
  /\ 10 * (pass.ty2 - pass.vh) + 1 >= 10 * pass.lrv[2]

\* the covered range read by the pass holds the viewport itself, with 0.1
\* to spare on each side
ContainsViewport ==
  /\ 10 * pass.lrv[1] - 1 >= 10 * pass.ty1
  /\ 10 * pass.ty2 >= 10 * pass.lrv[2] + 1

\* C7 as stated: a pass skips rasterization exactly when the covered range
\* holds the viewport extended by one viewport height on each side.
C7_CoverageTestAsStated ==
  Completed(pass) => (pass.kind = "skipped" <=> ContainsExtended)

\* C7: a pass skips rasterization exactly when the covered range holds the
\* viewport itself with 0.1 to spare on each side; otherwise it rasterizes.
C7_CoverageTest ==
  Completed(pass) => (pass.kind = "skipped" <=> ContainsViewport)

\* a pass skipped although the extended range is not covered
C7_Witness ==
  /\ Completed(pass)
  /\ pass.kind = "skipped"
  /\ ~ContainsExtended

\* C8: 500 lines of 20 units, viewport height 300: the window is 900 high;
\* a render at y = 4000 covers [3700, 4600] (5400..6300 from the top of the
\* widget) and renders lines 269..315; from there a viewport moved by 10 is
\* skipped and one moved by 400 is rendered and recorded.
C8_ScrollThreshold ==
  Completed(pass) =>
    /\ lbl.true_texture_size[2] = 900
    /\ (pass.kind = "rendered" /\ pass.y1 = 4000)
         => /\ pass.s = 269 /\ pass.e = 316
            /\ lbl.last_rendered_view = <<6300, 5400>>
    /\ (pass.lrv = <<6300, 5400>> /\ pass.y1 \in {3990, 4010})
         => pass.kind = "skipped"
    /\ (pass.lrv = <<6300, 5400>> /\ pass.y1 \in {3600, 4400})
         => /\ pass.kind = "rendered"
            /\ lbl.last_rendered_view = <<10000 - pass.y1 + 300, 10000 - pass.y1 - 600>>

\* the viewport moved by 400 from a render at 4000
C8_Witness ==
  /\ Completed(pass)
  /\ pass.lrv = <<6300, 5400>>
  /\ pass.y1 = 4400
  /\ pass.kind = "rendered"

\* C9: a re-measure of an empty text (or one that strips to empty) gives
\* the size (0, 0), and a pass that does not abort on a (0, 0) measurement
\* returns without texture, Line Offset Table, coverage test or render.
C9_EmptyShortCircuit ==
  pass.op = "layout" =>
    /\ (/\ pass.remeasured
        /\ \/ AllRecords[lbl.text].glyphs = 0
           \/ AllRecords[lbl.text].strip /\ AllRecords[lbl.text].blank)
         => lbl.texture_size = <<0, 0>>
    /\ (lbl.texture_size = <<0, 0>> /\ pass.kind # "aborted")
         => /\ pass.kind = "empty"
            /\ lbl.texture = None
            /\ lbl.lines_pos = None
            /\ ~pass.rebuilt
            /\ pass.lrv = None

\* an empty pass on a text that strips to empty, after a window existed
C9_Witness ==
  /\ pass.op = "layout" /\ pass.kind = "empty"
  /\ pass.remeasured
  /\ AllRecords[lbl.text].glyphs > 0
  /\ lbl.core_texture # None

\* C10: a rebuild and the context-loss handler mark the covered range
\* empty (the handler also asks for a viewport refresh), and a pass that
\* reads the empty marker at the coverage test rasterizes.
C10_EmptyRangeForcesRender ==
  /\ (Completed(pass) /\ pass.rebuilt) => pass.lrv = EmptyView
  /\ (Completed(pass) /\ pass.lrv = EmptyView) => pass.kind = "rendered"
  /\ pass.op = "reload" => "viewport" \in rv.asked
  /\ "viewport" \in rv.asked => lbl.last_rendered_view = EmptyView

\* a render forced by the context-loss handler alone
C10_Witness ==
  /\ Completed(pass)
  /\ ~pass.rebuilt
  /\ pass.lrv = EmptyView
  /\ pass.kind = "rendered"

\* an attach of an item with size_to_texture_height: the size key becomes
\* 'height' when it was empty and is left unchanged otherwise
AttachSetsKey ==
  (pass'.op = "attach" /\ lbl.size_to_texture_height)
    => /\ rv'.key_size # ""
       /\ rv'.key_size = (IF rv.key_size = "" THEN "height" ELSE rv.key_size)

\* a layout pass of an item with size_to_texture_height that does not abort
ContentPass ==
  /\ pass'.op = "layout"
  /\ lbl'.size_to_texture_height
  /\ pass'.kind # "aborted"

MeasuredSize(r, wrap) ==
  IF AllRecords[r].glyphs = 0 \/ AllRecords[r].blank THEN <<0, 0>>
  ELSE RenderSize(r, wrap)

\* no texture and no window state
Discarded(L) ==
  /\ L.texture = None
  /\ L.lines_pos = None
  /\ L.last_height = 0
  /\ L.true_texture_size = <<0, 0>>

\* the step has called texture_update (from the trigger or inside a pass)
Measures == pass'.op = "trigger" \/ (pass'.op = "layout" /\ pass'.remeasured)

\* C12: after every texture_update, texture_size holds the newly measured
\* size, the texture is None and the window state is discarded (no Line
\* Offset Table, last height 0, window size (0, 0)); a texture only comes
\* back when a refresh_view_layout pass rebuilds the window, which a pass
\* that measured and reaches window management always does.
C12_MeasureDoesNotRender ==
  [][/\ Measures
          => /\ lbl'.texture_size = MeasuredSize(lbl'.text, lbl'.text_size0)
             /\ IF Completed(pass') THEN pass'.rebuilt ELSE Discarded(lbl')
     /\ (lbl.texture = None /\ lbl'.texture # None)
          => (pass'.op = "layout" /\ pass'.rebuilt)]_vars

\* a measure inside a pass that ended before window management, on an item
\* that had a texture before: size measured, no texture, no window state
C12_Witness ==
  /\ pass.op = "layout"
  /\ pass.remeasured
  /\ ~Completed(pass)
  /\ lbl.core_texture # None
  /\ lbl.texture_size[2] > 0
  /\ Discarded(lbl)

\* a layout pass of an item with constrain_text_width
LockedPass == pass'.op = "layout" /\ lbl'.constrain_text_width

\* C13: with constrain_text_width, after every layout pass (completed,
\* empty or aborted) the wrap width text_size[0] equals the assigned width;
\* and when the pass changes the wrap width it measures at the new width in
\* that same pass: the abort decision and the window it then builds use the
\* new measurement, and no trigger is left pending.
C13_WidthLocking ==
  [][LockedPass =>
       /\ lbl'.text_size0 = lbl'.width
       /\ lbl'.width = pass'.w
       /\ lbl'.text_size0 # lbl.text_size0
            => /\ pass'.remeasured
               /\ ~lbl'.is_triggered
               /\ lbl'.texture_size = MeasuredSize(lbl'.text, pass'.w)
               /\ pass'.kind = "aborted"
                    <=> (lbl'.size_to_texture_height
                         /\ MeasuredSize(lbl'.text, pass'.w)[2] # pass'.h)
               /\ Completed(pass')
                    => /\ pass'.rebuilt
                       /\ Len(Val(lbl'.lines_pos)) = LineCount(lbl'.text, pass'.w)]_vars

\* a pass that measured, then built and rendered the window, although no
\* attach preceded it and the height is not driven by content: only the
\* change of the wrap width can have triggered the measure
C13_Witness ==
  /\ Completed(pass)
  /\ lbl.constrain_text_width
  /\ ~lbl.size_to_texture_height
  /\ pass.remeasured
  /\ pass.first = "no"
  /\ pass.kind = "rendered"

\* C14: for every non-empty sequence of lines with non-negative heights and
\* every starting y, accumulate_lines yields line count + 1 values, the
\* first equal to y, each next one the previous plus that line's height;
\* the values are non-decreasing and the last is the bottom edge of the
\* last line.
C14_LineOffsetTableShape ==
  loc.pos # <<>> =>
    /\ Len(loc.pos) = Len(loc.lines) + 1
    /\ loc.pos[1] = loc.y
    /\ \A i \in 1..Len(loc.lines) : loc.pos[i + 1] = loc.pos[i] + loc.lines[i]
    /\ \A i \in 1..Len(loc.lines) : loc.pos[i] <= loc.pos[i + 1]
    /\ loc.pos[Len(loc.pos)] = loc.pos[Len(loc.lines)] + loc.lines[Len(loc.lines)]

\* a table of three lines, one of them of height 0, from a starting y
\* other than 0
C14_Witness ==
  /\ loc.pos # <<>>
  /\ Len(loc.lines) = 3
  /\ loc.y # 0
  /\ \E i \in 1..3 : loc.lines[i] = 0
  /\ loc.pos[4] > loc.y

\* what the rebuild test of the pass finds: no table (none before the pass,
\* or discarded by the measure of this pass), or an assigned height other
\* than the one recorded at the last build, or a window more than 0.01
\* higher than 3 x the viewport height
RebuildCondition ==
  \/ lbl.lines_pos = None
  \/ pass'.remeasured
  \/ lbl.last_height # pass'.h
  \/ 100 * (lbl.true_texture_size[2] - 3 * pass'.vh) > 1

C16_NoCorrectionWithoutFollow ==
  (pass.op = "layout" /\ ~lbl.size_to_texture_height)
    => /\ pass.kind # "aborted"
       /\ pass.wrote = None
       /\ "data_size" \notin rv.asked
       /\ \A k \in Keys : rv.data[k] = None

\* a pass that measured a height other than the assigned one and went on
\* to window management
C16_Witness ==
  /\ Completed(pass)
  /\ ~lbl.size_to_texture_height
  /\ pass.remeasured
  /\ pass.measured # pass.h
  /\ pass.measured > 0

\* C17: whenever a layout pass rasterizes, the start index s satisfies
\* 0 <= s < number of lines and s < e, for every viewport, including
\* viewports entirely above or entirely below the widget.
C17_RenderIndicesInRange ==
  (pass.op = "layout" /\ pass.kind = "rendered")
    => /\ 0 <= pass.s
       /\ pass.s < Len(Val(lbl.lines_pos))
       /\ pass.s < pass.e

\* a render for a viewport entirely below the widget: the slice starts at
\* the last line
C17_Witness ==
  /\ pass.op = "layout" /\ pass.kind = "rendered"
  /\ pass.y1 + pass.vh < lbl.y
  /\ pass.s = Len(Val(lbl.lines_pos)) - 1
  /\ pass.e > Len(Val(lbl.lines_pos))

\* C18: after every layout pass that completes with a texture window,
\* whether it rasterized or skipped, the texture position and the covered
\* range denote the same region:
\* _texture_pos_y = widget.y + widget.height - _last_rendered_view[0].
C18_TexturePositionMatchesRange ==
  Completed(pass)
    => lbl.texture_pos_y = lbl.y + lbl.height - lbl.last_rendered_view[1]

\* C19: whenever the logical text height is at least 3 x the viewport
\* height of the pass, a layout pass that completes leaves the window height
\* equal to min(logical height, 3 x viewport height), so the covered range
\* recorded by a render is never higher than the window.
C19_WindowHoldsCoveredRange ==
  (Completed(pass) /\ lbl.texture_size[2] >= 3 * pass.vh)
    => lbl.true_texture_size[2] = Min(lbl.texture_size[2], 3 * pass.vh)

============================================================================
